---- MODULE Spec2Model ----
(***************************************************************************)
(* Client clock/tick synchronisation (SyncManager) and native input        *)
(* redundancy (InputManager / prepare_input_message) of lightyear.         *)
(*                                                                         *)
(* Time is counted in units of 16 microseconds, so that the modulus of     *)
(* WrappedTime (2^32 us) is 2^28 units and every product stays inside the  *)
(* integer range of the model checker.  All durations fed to the model     *)
(* are whole numbers of units.  An f32 factor is a pair <<num, den>>; a    *)
(* multiplication by it truncates towards zero, as the conversions back    *)
(* to integer durations do in the code.                                    *)
(***************************************************************************)
EXTENDS Integers, Sequences, FiniteSets, TLC

VARIABLES
    \* ---- SyncManager (sync.rs:88-107)
    synced,
    current_server_time,
    interpolation_time,
    interpolation_speed_ratio,
    latest_received_server_tick,
    duration_since_latest_received_server_tick,
    \* ---- collaborators read and written by SyncManager
    tick,                 \* TickManager::current_tick
    sync_relative_speed,  \* TimeManager::sync_relative_speed
    delta,                \* TimeManager::delta() read by the last update
    overstep,             \* TimeManager::overstep()
    sync_stats_len,       \* PingManager::sync_stats.len()
    rtt,                  \* PingManager::rtt()
    jitter,               \* PingManager::jitter()
    \* ---- build and control
    overflow_checks,      \* build profile: TRUE = integer overflow panics
    panicked,             \* a handler panicked; the client is gone
    lastOp,               \* the operation that produced this state
    set_tick_calls,       \* number of TickManager::set_tick_to calls so far
    steps,
    \* ---- InputManager and InputConfig (native.rs:67-86)
    input_buffer,         \* [start_tick : Option<Tick>, buffer : Seq(Option<A>)]
    packet_redundancy,
    input_send_interval,  \* send_frequency of the InputChannel
    \* ---- the input channel and what the server has seen of it
    call,                 \* <<end_tick, num_ticks>> of create_message, when
                          \* the last operation called it
    last_message,         \* the message it returned
    in_flight,            \* Option<InputMessage>: sent, not yet lost or delivered
    last_build_tick,      \* Option<Tick>: tick of the last prepare_input_message
    regular,              \* every message built since the last delivery was
                          \* handed to the channel
    lost_run,             \* messages lost in a row since the last delivery
    received,             \* Option<InputMessage>: the last message delivered
    prev_received_end,    \* Option<Tick>: end_tick of the delivery before it
    lost_before,          \* lost_run when `received` was delivered
    regular_before,       \* regular when `received` was delivered
    \* ---- bookkeeping of the properties
    \* ---- the schedules of a frame
    pos,                  \* the system set that runs next ("Off": calls are
                          \* made in any order)
    host_server,          \* is_host_server
    rollback,             \* Option<Tick>: the tick being replayed
    input_event,          \* Option<Option<A>>: InputEvent of the client
    server_event,         \* Option<<<Option<A>, ClientId>>>: InputEvent of
                          \* the server, written in host-server mode
    send_failed,          \* the last prepare_input_message called
                          \* send_message and got an error
    evicted,              \* the latest tick of a recorded input that a pop of
                          \* prepare_input_message has removed, if any
    popped,               \* Option<<<tick, value>>>: the argument and the
                          \* result of InputBuffer::pop, when it was the last
                          \* operation and its result was used
    zero_run              \* <<n, ratio, time>>: n update calls with a zero
                          \* delta in a row (counted up to 2), and the
                          \* interpolation_speed_ratio and current_server_time
                          \* before the first of them

vars == <<synced, current_server_time, interpolation_time,
          interpolation_speed_ratio, latest_received_server_tick,
          duration_since_latest_received_server_tick, tick,
          sync_relative_speed, delta, overstep, sync_stats_len, rtt, jitter,
          overflow_checks, panicked, lastOp, set_tick_calls, steps,
          input_buffer, packet_redundancy, input_send_interval, call,
          last_message, in_flight, last_build_tick, regular, lost_run, received,
          prev_received_end, lost_before, regular_before, pos, host_server,
          rollback, input_event, server_event, send_failed, evicted, popped,
          zero_run>>

\* the input configuration, the channel and the server's view of it
channelVars == <<packet_redundancy, input_send_interval,
                 in_flight, last_build_tick, regular, lost_run, received,
                 prev_received_end, lost_before, regular_before>>
inputVars == <<input_buffer, channelVars>>

(***************************************************************************)
(* Bounds of the model.                                                    *)
(***************************************************************************)
MaxSteps == 7
HandshakePings == 3
MaxTicks == 6
MaxRedundancy == 2
MaxIntervalTicks == 2
MaxBufferLen == 3
MaxMessageLen == 4
MaxSnaps == 1
MaxRollbackTicks == 1
MaxBacklog == 8

(***************************************************************************)
(* Units and primitive types.                                              *)
(***************************************************************************)
\* Duration::from_millis, in units of 16 us (exact for the values used)
Ms(n) == (n * 125) \div 2

TickModulus == 2 ^ 16
WrappedTimeModulus == 2 ^ 28

\* u16 truncation (`as u16`, Tick)
WrapTick(n) == n % TickModulus

\* Tick - Tick : wrap-aware signed distance, an i16
TickDiff(a, b) ==
    LET d == (a - b) % TickModulus
    IN  IF d >= TickModulus \div 2 THEN d - TickModulus ELSE d

\* WrappedTime::from_duration and wrapping + / - of a duration
WrappedTime(n) == n % WrappedTimeModulus

\* WrappedTime - WrappedTime : wrap-aware signed chrono::Duration
TimeDiff(a, b) ==
    LET d == (a - b) % WrappedTimeModulus
    IN  IF d >= WrappedTimeModulus \div 2 THEN d - WrappedTimeModulus ELSE d

\* x * (r[1] / r[2]) truncated, without forming x * r[1]
MulF32(x, r) == (x \div r[2]) * r[1] + ((x % r[2]) * r[1]) \div r[2]

One == <<1, 1>>
Recip(r) == <<r[2], r[1]>>

(***************************************************************************)
(* Configuration (SyncConfig, InterpolationDelay, tick duration).          *)
(***************************************************************************)
JitterMultipleMargin == 3
TickMargin == 1
ErrorMargin == One
SpeedupFactor == <<103, 100>>
CurrentServerTimeSmoothing == <<1, 10>>
\* 1.0 - current_server_time_smoothing
SmoothingComplement ==
    <<CurrentServerTimeSmoothing[2] - CurrentServerTimeSmoothing[1],
      CurrentServerTimeSmoothing[2]>>
TickDuration == Ms(16)
MinDelay == Ms(0)
SendIntervalRatio == <<2, 1>>
ServerSendInterval == Ms(16)
\* chrono::Duration::milliseconds(10) in update_interpolation_time
InterpolationErrorMargin == Ms(10)
I16Max == 32767
U16Max == 65535
WrapSafetyBand == 1000

(***************************************************************************)
(* Inputs of the environment.                                              *)
(***************************************************************************)
Deltas == {Ms(0), Ms(4), Ms(16)}
Oversteps == {Ms(0), Ms(4)}
Samples == {<<Ms(100), Ms(10)>>, <<Ms(40), Ms(8)>>}
ServerTicks == {3, 32000, 65526, 65535}

(***************************************************************************)
(* SyncManager: pure parts.                                                *)
(***************************************************************************)
\* how far ahead of the server should I be?
\* mutant: the two margins are exchanged
client_ahead_minimum_exchanged(tick_duration, j) ==
    TickMargin * j + JitterMultipleMargin * tick_duration

client_ahead_minimum(tick_duration, j) ==
    JitterMultipleMargin * j + TickMargin * tick_duration

\* time at which the server would receive a packet we send now
predicted_server_receive_time(cst, r) == WrappedTime(cst + r \div 2)

\* the value update_current_server_time stores in current_server_time
update_current_server_time(cst, lat, dur, tick_duration, r) ==
    LET new_current_server_time_estimate ==
            WrappedTime(lat * tick_duration + dur + r \div 2)
    IN  IF cst = 0
        THEN new_current_server_time_estimate
        ELSE WrappedTime(
                 WrappedTime(MulF32(cst, CurrentServerTimeSmoothing))
               + WrappedTime(MulF32(new_current_server_time_estimate,
                                    SmoothingComplement)))

\* the client tick as current_prediction_time sees it
client_tick_raw(lat, tk) ==
    IF lat - tk > I16Max - WrapSafetyBand THEN tk + U16Max ELSE tk

current_prediction_time(lat, tk, ov) ==
    WrappedTime(TickDuration * client_tick_raw(lat, tk) + ov)

\* InterpolationDelay::to_duration
to_duration(server_send_interval) ==
    LET ratio_value == MulF32(server_send_interval, SendIntervalRatio)
    IN  IF ratio_value >= MinDelay THEN ratio_value ELSE MinDelay

interpolation_objective(lat, dur) ==
    LET objective_time == WrappedTime(lat * TickDuration + dur)
        objective_delta == to_duration(ServerSendInterval)
    IN  WrappedTime(objective_time - objective_delta)

interpolation_tick(it) == WrapTick(it \div TickDuration)

\* mutant: the cursor advances by the delta, whatever the ratio
advance_interpolation_time_unscaled(it, d, ratio) == WrappedTime(it + d)

\* update: interpolation_time += delta.mul_f32(interpolation_speed_ratio)
advance_interpolation_time(it, d, ratio) ==
    WrappedTime(it + MulF32(d, ratio))

\* mutant: the ratio is scaled instead of being set
update_interpolation_time_scaled(ratio, it, lat, dur) ==
    LET d == TimeDiff(interpolation_objective(lat, dur), it)
    IN  IF d > InterpolationErrorMargin
        THEN <<ratio[1] * SpeedupFactor[1], ratio[2] * SpeedupFactor[2]>>
        ELSE IF d < -InterpolationErrorMargin
        THEN <<ratio[1] * SpeedupFactor[2], ratio[2] * SpeedupFactor[1]>>
        ELSE One

\* mutant: the cursor is slowed down when it is behind
update_interpolation_time_swapped(ratio, it, lat, dur) ==
    LET d == TimeDiff(interpolation_objective(lat, dur), it)
    IN  IF d > InterpolationErrorMargin THEN Recip(SpeedupFactor)
        ELSE IF d < -InterpolationErrorMargin THEN SpeedupFactor
        ELSE One

\* the value update_interpolation_time stores in interpolation_speed_ratio
update_interpolation_time(ratio, it, lat, dur) ==
    LET d == TimeDiff(interpolation_objective(lat, dur), it)
    IN  IF d > InterpolationErrorMargin THEN SpeedupFactor
        ELSE IF d < -InterpolationErrorMargin THEN Recip(SpeedupFactor)
        ELSE One

\* mutant: the client is sped up when it is ahead
update_prediction_time_swapped(cst, lat, tk, ov, r, j) ==
    LET client_ahead_delta ==
            TimeDiff(current_prediction_time(lat, tk, ov),
                     predicted_server_receive_time(cst, r))
        error == client_ahead_delta - client_ahead_minimum(TickDuration, j)
        error_margin_time == MulF32(TickDuration, ErrorMargin)
    IN  IF error > error_margin_time THEN SpeedupFactor
        ELSE IF error < -error_margin_time THEN Recip(SpeedupFactor)
        ELSE One

\* the value update_prediction_time stores in sync_relative_speed
update_prediction_time(cst, lat, tk, ov, r, j) ==
    LET client_ahead_delta ==
            TimeDiff(current_prediction_time(lat, tk, ov),
                     predicted_server_receive_time(cst, r))
        error == client_ahead_delta - client_ahead_minimum(TickDuration, j)
        error_margin_time == MulF32(TickDuration, ErrorMargin)
    IN  IF error > error_margin_time THEN Recip(SpeedupFactor)
        ELSE IF error < -error_margin_time THEN SpeedupFactor
        ELSE One

\* finalize: the time the client should be at, and the tick before `+ 1`
client_ideal_time(cst, r, j) ==
    WrappedTime(predicted_server_receive_time(cst, r)
                + client_ahead_minimum(TickDuration, j))

ideal_tick_floor(cst, r, j) ==
    WrapTick(client_ideal_time(cst, r, j) \div TickDuration)

\* u16 `+ 1`: overflows at 65535
finalize_overflows(cst, r, j) == ideal_tick_floor(cst, r, j) + 1 > U16Max

client_ideal_tick(cst, r, j) == WrapTick(ideal_tick_floor(cst, r, j) + 1)

\* mutant: the server tick is moved along with the client tick
server_tick_after_snap_shifted(lat, old_tick, new_tick) ==
    WrapTick(lat + TickDiff(new_tick, old_tick))

\* finalize: latest_received_server_tick once set_tick_to has moved the
\* client tick from old_tick to new_tick (the field is not written)
server_tick_after_snap(lat, old_tick, new_tick) == lat

\* mutant: the sample count is compared with > instead of >=
ready_to_finalize_late(s, len) == ~s /\ len > HandshakePings

\* mutant: the handshake is finalized again by every later update
ready_to_finalize_again(s, len) == len >= HandshakePings

\* update: does this call finalize the handshake?
ready_to_finalize(s, len) == ~s /\ len >= HandshakePings

\* mutant: the flag is recomputed by every update
synced_after_recomputed(s, fin) == fin

\* update: the synced flag after the handshake check
synced_after(s, fin) == IF fin THEN TRUE ELSE s

\* mutant: the ratio is recomputed by every update
runs_update_interpolation_time_always(s) == TRUE

\* update: update_interpolation_time is called at the end if self.synced
runs_update_interpolation_time(s) == s

(***************************************************************************)
(* InputBuffer and InputMessage.                                           *)
(* Option<T>: None is <<>>, Some(x) is <<x>>.                              *)
(***************************************************************************)
None == <<>>
Some(x) == <<x>>

Absent == <<"Absent">>
SameAsPrecedent == <<"SameAsPrecedent">>
Input(a) == <<"Input", a>>

EmptyBuffer == [start_tick |-> None, buffer |-> <<>>]

\* InputBuffer::get
get(buf, t) ==
    IF buf.start_tick = None THEN None
    ELSE LET d == TickDiff(t, buf.start_tick[1])
         IN  IF d < 0 \/ d >= Len(buf.buffer) THEN None
             ELSE buf.buffer[d + 1]

\* mutant: the gap up to a write after the end repeats the last entry
set_repeating(buf, t, value) ==
    IF buf.start_tick = None
    THEN [start_tick |-> Some(t), buffer |-> <<value>>]
    ELSE LET d == TickDiff(t, buf.start_tick[1])
             n == Len(buf.buffer)
         IN  IF d < 0 THEN buf
             ELSE IF d >= n
             THEN [buf EXCEPT !.buffer =
                      buf.buffer
                      \o [i \in 1..(d - n) |->
                             IF n = 0 THEN None ELSE buf.buffer[n]]
                      \o <<value>>]
             ELSE [buf EXCEPT !.buffer[d + 1] = value]

\* mutant: a write before start_tick grows the buffer backwards
set_growing_backwards(buf, t, value) ==
    IF buf.start_tick = None
    THEN [start_tick |-> Some(t), buffer |-> <<value>>]
    ELSE LET d == TickDiff(t, buf.start_tick[1])
             n == Len(buf.buffer)
         IN  IF d < 0
             THEN [start_tick |-> Some(t),
                   buffer |-> <<value>> \o [i \in 1..(-d - 1) |-> None]
                                  \o buf.buffer]
             ELSE IF d >= n
             THEN [buf EXCEPT !.buffer =
                      buf.buffer \o [i \in 1..(d - n) |-> None] \o <<value>>]
             ELSE [buf EXCEPT !.buffer[d + 1] = value]

\* mutant: a write inside the buffer drops the entries after it
set_truncating(buf, t, value) ==
    IF buf.start_tick = None
    THEN [start_tick |-> Some(t), buffer |-> <<value>>]
    ELSE LET d == TickDiff(t, buf.start_tick[1])
             n == Len(buf.buffer)
         IN  IF d < 0 THEN buf
             ELSE IF d >= n
             THEN [buf EXCEPT !.buffer =
                      buf.buffer \o [i \in 1..(d - n) |-> None] \o <<value>>]
             ELSE [buf EXCEPT !.buffer = SubSeq(buf.buffer, 1, d) \o <<value>>]

\* InputBuffer::set
set(buf, t, value) ==
    IF buf.start_tick = None
    THEN [start_tick |-> Some(t), buffer |-> <<value>>]
    ELSE LET d == TickDiff(t, buf.start_tick[1])
             n == Len(buf.buffer)
         IN  IF d < 0 THEN buf
             ELSE IF d >= n
             THEN [buf EXCEPT !.buffer =
                      buf.buffer \o [i \in 1..(d - n) |-> None] \o <<value>>]
             ELSE [buf EXCEPT !.buffer[d + 1] = value]

\* mutant: the oldest entry is returned, whatever the tick
pop_value_oldest(buf, t) ==
    IF buf.start_tick = None \/ buf.buffer = <<>> THEN None
    ELSE buf.buffer[1]

\* InputBuffer::pop: the value it returns
pop_value(buf, t) ==
    IF buf.start_tick = None THEN None
    ELSE LET d == TickDiff(t, buf.start_tick[1])
         IN  IF d < 0 \/ d >= Len(buf.buffer) THEN None
             ELSE buf.buffer[d + 1]

\* mutant: pop returns the entry and leaves it in the buffer
pop_keeping(buf, t) == buf

\* InputBuffer::pop: the buffer it leaves
pop(buf, t) ==
    IF buf.start_tick = None THEN buf
    ELSE LET d == TickDiff(t, buf.start_tick[1])
             n == Len(buf.buffer)
         IN  IF d < 0 THEN buf
             ELSE [start_tick |-> Some(WrapTick(t + 1)),
                   buffer |-> IF d >= n THEN <<>>
                              ELSE SubSeq(buf.buffer, d + 2, n)]

\* mutant: a repeat marker for any two consecutive recorded inputs
entry_for_any_input(value, prev_value, first) ==
    IF ~first /\ value # None /\ prev_value # None THEN SameAsPrecedent
    ELSE IF value = None THEN Absent
    ELSE Input(value[1])

\* the entry create_message emits for one tick, given the tick before it
entry_for(value, prev_value, first) ==
    IF ~first /\ value = prev_value THEN SameAsPrecedent
    ELSE IF value = None THEN Absent
    ELSE Input(value[1])

\* InputBuffer::create_message
create_message(buf, end_tick, num_ticks) ==
    LET start == WrapTick(end_tick - num_ticks + 1)
        at(i) == get(buf, WrapTick(start + i - 1))
    IN  [end_tick |-> end_tick,
         inputs |-> [i \in 1..num_ticks |->
                        entry_for(at(i), IF i = 1 THEN None ELSE at(i - 1),
                                  i = 1)]]

\* mutant: the ticks put into a message are taken out of the buffer
after_create_message_draining(buf, end_tick, num_ticks) == pop(buf, end_tick)

\* InputBuffer::create_message: the buffer it leaves
after_create_message(buf, end_tick, num_ticks) == buf

\* InputMessage::is_empty
is_empty(message) ==
    \A i \in 1..Len(message.inputs) :
        message.inputs[i] \in {Absent, SameAsPrecedent}

\* what the receiver reads out of a message, oldest tick first
decode(message) ==
    LET dec[i \in 0..Len(message.inputs)] ==
            IF i = 0 THEN None
            ELSE IF message.inputs[i] = SameAsPrecedent THEN dec[i - 1]
            ELSE IF message.inputs[i] = Absent THEN None
            ELSE Some(message.inputs[i][2])
    IN  [i \in 1..Len(message.inputs) |-> dec[i]]

\* first tick of the window of a message
window_start(message) ==
    WrapTick(message.end_tick - Len(message.inputs) + 1)

\* mutant: the start of the buffer is shifted the other way
receive_tick_events_backwards(buf, old_tick, new_tick) ==
    IF buf.start_tick = None THEN buf
    ELSE [buf EXCEPT !.start_tick =
             Some(WrapTick(buf.start_tick[1] + TickDiff(old_tick, new_tick)))]

\* receive_tick_events: TickSnap shifts the start of the buffer
receive_tick_events(buf, old_tick, new_tick) ==
    IF buf.start_tick = None THEN buf
    ELSE [buf EXCEPT !.start_tick =
             Some(WrapTick(buf.start_tick[1] + TickDiff(new_tick, old_tick)))]

\* prepare_input_message: ticks per send and the length of the message
num_tick(send_interval) == send_interval \div TickDuration + 1
message_len(redundancy, send_interval) == redundancy * num_tick(send_interval)

\* InputConfig::default
DefaultPacketRedundancy == 10

\* configurations and inputs
Actions == {"a", "b"}
ChannelActions == {"a"}
BufferTicks == {65534, 65535, 0, 1}
MessageTicks == {65535, 0, 1, 2}
SnapTicks == {5, 65533}
FrameSamples == {<<Ms(100), Ms(10)>>}
FrameServerTicks == {3, 65526}
FrameDeltas == {Ms(0), Ms(16)}
FrameActions == {"a", "b"}
Redundancies == 0..MaxRedundancy
SendIntervals == {k * TickDuration : k \in 1..MaxIntervalTicks}

NoMessage == [end_tick |-> 0, inputs |-> <<>>]
NoCall == <<0, 0>>

ChannelInit ==
    /\ call = NoCall
    /\ last_message = NoMessage
    /\ in_flight = None
    /\ last_build_tick = None
    /\ regular = TRUE
    /\ lost_run = 0
    /\ received = None
    /\ prev_received_end = None
    /\ lost_before = 0
    /\ regular_before = TRUE

(***************************************************************************)
(* The schedules of a frame: PreUpdate (packets are received, a rollback   *)
(* replays ticks), the fixed main loop (FixedPreUpdate, FixedUpdate) and   *)
(* PostUpdate.                                                             *)
(***************************************************************************)
\* mutant: the input event is written before the user's systems buffer
fixed_pre_update_sets_unchained == <<"WriteInputEvent", "BufferInputs">>

\* InputPlugin::build: the chained sets of FixedPreUpdate
fixed_pre_update_sets == <<"BufferInputs", "WriteInputEvent">>

\* mutant: the input message is built before the sync update
post_update_sets_unchained == <<"SendInputMessage", "SyncSet", "Send">>

\* InputPlugin::build: the chained sets of PostUpdate
post_update_sets == <<"SyncSet", "SendInputMessage", "Send">>

\* one tick of the fixed main loop, then PostUpdate
frame_sets ==
    fixed_pre_update_sets \o <<"FixedUpdate", "ClearInputEvent">>
        \o post_update_sets

\* the set that runs after set p; PreUpdate of the next frame after the last
next_set(p) ==
    LET i == CHOOSE k \in 1..Len(frame_sets) : frame_sets[k] = p
    IN  IF i = Len(frame_sets) THEN "PreUpdate" ELSE frame_sets[i + 1]

\* the position once `op` has run at position p
after(p, op) ==
    IF p = "Off" THEN "Off"
    ELSE IF p \in {"PreUpdate", "RunFixedMainLoop"} THEN p
    ELSE next_set(p)

\* mutant: the input message is built whenever the client is not the host
send_input_message_runs_unsynced(s, host) == ~host

\* run condition of SendInputMessage: is_synced.and_then(not(is_host_server))
send_input_message_runs(s, host) == s /\ ~host

\* mutant: the user's systems buffer inputs during a rollback too
buffer_inputs_runs_always(rb) == TRUE

\* run condition of BufferInputs: not(is_in_rollback)
buffer_inputs_runs(rb) == rb = None

\* no update call with a zero delta has just been made
NoRun == <<0, One, 0>>

\* the zero-delta update calls in a row, after one more update call
count_zero_run(run, d, ratio, cst) ==
    IF d # 0 THEN NoRun
    ELSE IF run[1] = 0 THEN <<1, ratio, cst>>
    ELSE <<2, run[2], run[3]>>

(***************************************************************************)
(* Initial state: SyncManager::new, tick 0, no sample.                     *)
(***************************************************************************)
SyncNew ==
    /\ synced = FALSE
    /\ current_server_time = 0
    /\ interpolation_time = 0
    /\ interpolation_speed_ratio = One
    /\ latest_received_server_tick = 0
    /\ duration_since_latest_received_server_tick = 0
    /\ tick = 0
    /\ sync_relative_speed = One
    /\ delta = 0
    /\ overstep = 0
    /\ sync_stats_len = 0
    /\ rtt = 0
    /\ jitter = 0
    /\ panicked = FALSE
    /\ lastOp = "new"
    /\ set_tick_calls = 0
    /\ steps = 0
    /\ input_buffer = EmptyBuffer
    /\ packet_redundancy = DefaultPacketRedundancy
    /\ input_send_interval = Ms(0)
    /\ ChannelInit
    /\ rollback = None
    /\ input_event = None
    /\ server_event = None
    /\ send_failed = FALSE
    /\ evicted = None
    /\ popped = None
    /\ zero_run = NoRun

Init ==
    /\ SyncNew
    /\ overflow_checks \in BOOLEAN
    /\ pos = "Off"
    /\ host_server = FALSE

IsUpdate(op) == op \in {"update", "finalize"}

Step(op) ==
    /\ ~panicked
    /\ steps < MaxSteps
    /\ steps' = steps + 1
    /\ lastOp' = op
    /\ IF IsUpdate(op) THEN TRUE ELSE zero_run' = NoRun
    /\ popped' = None
    /\ pos' = after(pos, op)
    /\ UNCHANGED <<call, last_message, send_failed, evicted, host_server,
                   rollback,
                   input_event, server_event>>

(***************************************************************************)
(* SyncManager::update, with the finalize it calls.                        *)
(***************************************************************************)
Update(d) ==
    LET dur1 == duration_since_latest_received_server_tick + d
        cst1 == WrappedTime(current_server_time + d)
        it1  == advance_interpolation_time(interpolation_time, d,
                                          interpolation_speed_ratio)
        lat  == latest_received_server_tick
        fin  == ready_to_finalize(synced, sync_stats_len)
        \* finalize
        cst2 == update_current_server_time(cst1, lat, dur1, TickDuration, rtt)
        it2  == interpolation_objective(lat, dur1)
    IN  /\ Step(IF fin THEN "finalize" ELSE "update")
        /\ delta' = d
        /\ zero_run' = count_zero_run(zero_run, d, interpolation_speed_ratio,
                                      current_server_time)
        /\ duration_since_latest_received_server_tick' = dur1
        /\ synced' = synced_after(synced, fin)
        /\ IF fin
           THEN /\ current_server_time' = cst2
                /\ IF overflow_checks /\ finalize_overflows(cst2, rtt, jitter)
                   THEN \* `as u16 + 1` panics before set_tick_to
                        /\ panicked' = TRUE
                        /\ interpolation_time' = it1
                        /\ UNCHANGED <<tick, set_tick_calls, input_buffer,
                                       interpolation_speed_ratio,
                                       latest_received_server_tick>>
                   ELSE /\ panicked' = FALSE
                        /\ tick' = client_ideal_tick(cst2, rtt, jitter)
                        /\ set_tick_calls' = set_tick_calls + 1
                        /\ latest_received_server_tick' =
                               server_tick_after_snap(
                                   lat, tick,
                                   client_ideal_tick(cst2, rtt, jitter))
                        \* set_tick_to triggers TickEvent::TickSnap
                        /\ input_buffer' =
                               receive_tick_events(
                                   input_buffer, tick,
                                   client_ideal_tick(cst2, rtt, jitter))
                        /\ interpolation_time' = it2
                        /\ interpolation_speed_ratio' =
                               update_interpolation_time(
                                   interpolation_speed_ratio, it2, lat, dur1)
           ELSE /\ current_server_time' = cst1
                /\ interpolation_time' = it1
                /\ interpolation_speed_ratio' =
                       IF runs_update_interpolation_time(
                              synced_after(synced, fin))
                       THEN update_interpolation_time(
                                interpolation_speed_ratio, it1, lat, dur1)
                       ELSE interpolation_speed_ratio
                /\ UNCHANGED <<tick, set_tick_calls, panicked, input_buffer,
                               latest_received_server_tick>>
        /\ UNCHANGED <<sync_relative_speed, overstep, sync_stats_len, rtt,
                       jitter, overflow_checks>>
        /\ UNCHANGED channelVars

(***************************************************************************)
(* SyncManager::update_interpolation_time called on its own.               *)
(***************************************************************************)
UpdateInterpolationTime ==
    /\ Step("update_interpolation_time")
    /\ interpolation_speed_ratio' =
           update_interpolation_time(
               interpolation_speed_ratio, interpolation_time,
               latest_received_server_tick,
               duration_since_latest_received_server_tick)
    /\ UNCHANGED <<synced, current_server_time, interpolation_time,
                   latest_received_server_tick,
                   duration_since_latest_received_server_tick, tick,
                   sync_relative_speed, delta, overstep, sync_stats_len, rtt,
                   jitter, overflow_checks, panicked, set_tick_calls>>
    /\ UNCHANGED inputVars

(***************************************************************************)
(* SyncManager::update_prediction_time (run once synced).                  *)
(***************************************************************************)
\* mutant: the multiplier is applied to the wall clock at once
overstep_after_prediction_scaled(o, speed) == MulF32(o, speed)

\* the overstep of the TimeManager after update_prediction_time
overstep_after_prediction(o, speed) == o

UpdatePredictionTime ==
    LET speed == update_prediction_time(
                     current_server_time, latest_received_server_tick, tick,
                     overstep, rtt, jitter)
    IN  /\ synced
        /\ Step("update_prediction_time")
        /\ sync_relative_speed' = speed
        /\ overstep' = overstep_after_prediction(overstep, speed)
        /\ UNCHANGED <<synced, current_server_time, interpolation_time,
                       interpolation_speed_ratio, latest_received_server_tick,
                       duration_since_latest_received_server_tick, tick,
                       delta, sync_stats_len, rtt, jitter, overflow_checks,
                       panicked, set_tick_calls>>
        /\ UNCHANGED inputVars

\* the fixed timestep accumulates the time of the frame: the TimeManager is
\* given the overstep the fixed main loop leaves
SetOverstep(o) ==
    /\ ~panicked
    /\ o # overstep
    /\ lastOp' = "set_overstep"
    /\ overstep' = o
    /\ zero_run' = NoRun
    /\ popped' = None
    /\ UNCHANGED <<synced, current_server_time, interpolation_time,
                   interpolation_speed_ratio, latest_received_server_tick,
                   duration_since_latest_received_server_tick, tick,
                   sync_relative_speed, delta, sync_stats_len, rtt, jitter,
                   overflow_checks, panicked, set_tick_calls, steps, pos,
                   call, last_message, send_failed, evicted, host_server,
                   rollback,
                   input_event, server_event>>
    /\ UNCHANGED inputVars

(***************************************************************************)
(* Environment: ping samples, server packets, the fixed-update tick.       *)
(***************************************************************************)
\* a pong is recorded: one more sample, fresh rtt / jitter estimates
RecordSample(sample) ==
    /\ sync_stats_len < HandshakePings + 1
    /\ Step("record_sample")
    /\ sync_stats_len' = sync_stats_len + 1
    /\ rtt' = sample[1]
    /\ jitter' = sample[2]
    /\ UNCHANGED <<synced, current_server_time, interpolation_time,
                   interpolation_speed_ratio, latest_received_server_tick,
                   duration_since_latest_received_server_tick, tick,
                   sync_relative_speed, delta, overstep, overflow_checks,
                   panicked, set_tick_calls>>
    /\ UNCHANGED inputVars

\* a sample older than stats_buffer_duration leaves the rolling buffer
ExpireSample ==
    /\ sync_stats_len > 0
    /\ Step("expire_sample")
    /\ sync_stats_len' = sync_stats_len - 1
    /\ UNCHANGED <<synced, current_server_time, interpolation_time,
                   interpolation_speed_ratio, latest_received_server_tick,
                   duration_since_latest_received_server_tick, tick,
                   sync_relative_speed, delta, overstep, rtt, jitter,
                   overflow_checks, panicked, set_tick_calls>>
    /\ UNCHANGED inputVars

\* a packet of the server reports its tick
ReceiveServerTick(t) ==
    /\ Step("receive_server_tick")
    /\ latest_received_server_tick' = t
    /\ duration_since_latest_received_server_tick' = 0
    /\ UNCHANGED <<synced, current_server_time, interpolation_time,
                   interpolation_speed_ratio, tick, sync_relative_speed,
                   delta, overstep, sync_stats_len, rtt, jitter,
                   overflow_checks, panicked, set_tick_calls>>
    /\ UNCHANGED inputVars

\* increment_tick of the FixedUpdate schedule
increment_tick ==
    /\ tick' = WrapTick(tick + 1)
    /\ UNCHANGED <<synced, current_server_time, interpolation_time,
                   interpolation_speed_ratio, latest_received_server_tick,
                   duration_since_latest_received_server_tick,
                   sync_relative_speed, delta, overstep, sync_stats_len, rtt,
                   jitter, overflow_checks, panicked, set_tick_calls>>
    /\ UNCHANGED inputVars

IncrementTick == Step("increment_tick") /\ increment_tick

Next ==
    \/ \E d \in Deltas : Update(d)
    \/ UpdateInterpolationTime
    \/ UpdatePredictionTime
    \/ \E o \in Oversteps : SetOverstep(o)
    \/ \E sample \in Samples : RecordSample(sample)
    \/ ExpireSample
    \/ \E t \in ServerTicks : ReceiveServerTick(t)
    \/ IncrementTick

Spec == Init /\ [][Next]_vars

(***************************************************************************)
(* The input path of a synced client.                                      *)
(*                                                                         *)
(* InitInput is the state an update leaves when it finalizes the handshake *)
(* with no time elapsed since the last server packet, for one of a few     *)
(* server ticks, with an input configuration drawn from small ranges.      *)
(***************************************************************************)
InputStartServerTicks == {65522}
InputStartSample == <<Ms(100), Ms(10)>>

InitInput ==
    \E lat \in InputStartServerTicks :
        LET cst == update_current_server_time(0, lat, 0, TickDuration,
                                              InputStartSample[1])
        IN  /\ synced = TRUE
            /\ current_server_time = cst
            /\ interpolation_time = interpolation_objective(lat, 0)
            /\ interpolation_speed_ratio = One
            /\ latest_received_server_tick = lat
            /\ duration_since_latest_received_server_tick = 0
            /\ tick = client_ideal_tick(cst, InputStartSample[1],
                                        InputStartSample[2])
            /\ sync_relative_speed = One
            /\ delta = 0
            /\ overstep = 0
            /\ sync_stats_len = HandshakePings
            /\ rtt = InputStartSample[1]
            /\ jitter = InputStartSample[2]
            /\ overflow_checks = FALSE
            /\ panicked = FALSE
            /\ lastOp = "finalize"
            /\ set_tick_calls = 1
            /\ steps = 0
            /\ input_buffer = EmptyBuffer
            /\ packet_redundancy \in Redundancies
            /\ input_send_interval \in SendIntervals
            /\ ChannelInit
            /\ pos = "Off"
            /\ host_server = FALSE
            /\ rollback = None
            /\ input_event = None
            /\ server_event = None
            /\ send_failed = FALSE
            /\ evicted = None
            /\ popped = None
            /\ zero_run = NoRun

\* in this part `steps` counts the fixed-update ticks since InitInput
InputStep(op) ==
    /\ ~panicked
    /\ lastOp' = op
    /\ steps' = IF op = "increment_tick" THEN steps + 1 ELSE steps
    /\ IF op = "pop" THEN TRUE ELSE popped' = None
    /\ IF op \in {"create_message", "prepare_input_message"} THEN TRUE
       ELSE call' = NoCall /\ last_message' = NoMessage
    /\ IF op = "prepare_input_message" THEN TRUE
       ELSE UNCHANGED <<send_failed, evicted>>
    /\ pos' = after(pos, op)
    /\ UNCHANGED <<host_server, rollback, input_event, server_event>>
    /\ UNCHANGED zero_run

syncVars == <<synced, current_server_time, interpolation_time,
              interpolation_speed_ratio, latest_received_server_tick,
              duration_since_latest_received_server_tick, tick,
              sync_relative_speed, delta, overstep, sync_stats_len, rtt,
              jitter, overflow_checks, panicked, set_tick_calls>>

\* InputManager::add_input
AddInput(a, t) ==
    /\ InputStep("add_input")
    /\ input_buffer' = set(input_buffer, t, Some(a))
    /\ UNCHANGED <<syncVars, channelVars>>

\* the ticks of the recorded inputs that pop(t) removes from the buffer
removed_ticks(buf, t) ==
    IF buf.start_tick = None THEN {}
    ELSE {WrapTick(buf.start_tick[1] + k - 1) :
             k \in {i \in 1..Len(buf.buffer) :
                       /\ buf.buffer[i] # None
                       /\ i - 1 <= TickDiff(t, buf.start_tick[1])}}

\* the latest tick of a recorded input removed so far
evicted_after(buf, t, ev) ==
    LET removed == removed_ticks(buf, t)
    IN  IF removed = {} THEN ev
        ELSE Some(CHOOSE u \in removed :
                      \A v \in removed : TickDiff(u, v) >= 0)

\* mutant: every message built is sent
handed_to_channel_always(message) == TRUE

\* prepare_input_message: is send_message called with the message?
handed_to_channel(message) == ~is_empty(message)

\* the SendInputMessage set runs once per send interval of the channel
since_last_build == TickDiff(tick, last_build_tick[1]) * TickDuration
send_due ==
    IF last_build_tick = None THEN TRUE
    ELSE since_last_build >= input_send_interval

\* one fixed-update tick; a due input message is built, and the channel has
\* dealt with it, before the next tick
FixedTick ==
    /\ steps < MaxTicks
    /\ in_flight = None
    /\ IF last_build_tick = None THEN TRUE
       ELSE since_last_build < input_send_interval
    /\ InputStep("increment_tick")
    /\ increment_tick

\* prepare_input_message (runs if is_synced); send_ok is the outcome of
\* send_message
PrepareInputMessage(send_ok) ==
    LET len == message_len(packet_redundancy, input_send_interval)
        message == create_message(input_buffer, tick, len)
        handed == handed_to_channel(message)
    IN  /\ send_input_message_runs(synced, host_server)
        /\ send_due
        /\ in_flight = None
        /\ InputStep("prepare_input_message")
        /\ call' = <<tick, len>>
        /\ last_message' = message
        /\ in_flight' = IF handed /\ send_ok THEN Some(message) ELSE None
        /\ lost_run' = IF handed /\ ~send_ok THEN lost_run + 1 ELSE lost_run
        /\ send_failed' = (handed /\ ~send_ok)
        /\ evicted' = evicted_after(input_buffer,
                                    interpolation_tick(interpolation_time),
                                    evicted)
        /\ last_build_tick' = Some(tick)
        /\ regular' = (regular /\ handed)
        \* delete old input values
        /\ input_buffer' =
               pop(after_create_message(input_buffer, tick, len),
                   interpolation_tick(interpolation_time))
        /\ UNCHANGED <<syncVars, packet_redundancy, input_send_interval,
                       received, prev_received_end, lost_before,
                       regular_before>>

\* the unreliable channel drops the message
LoseMessage ==
    /\ in_flight # None
    /\ InputStep("lose")
    /\ in_flight' = None
    /\ lost_run' = lost_run + 1
    /\ UNCHANGED <<syncVars, input_buffer, packet_redundancy,
                   input_send_interval, last_build_tick,
                   regular, received, prev_received_end, lost_before,
                   regular_before>>

\* the server receives the message
DeliverMessage ==
    /\ in_flight # None
    /\ InputStep("deliver")
    /\ received' = in_flight
    /\ prev_received_end' =
           IF received = None THEN None ELSE Some(received[1].end_tick)
    /\ lost_before' = lost_run
    /\ regular_before' = regular
    /\ in_flight' = None
    /\ lost_run' = 0
    /\ regular' = TRUE
    /\ UNCHANGED <<syncVars, input_buffer, packet_redundancy,
                   input_send_interval, last_build_tick>>

NextInput ==
    \/ \E a \in ChannelActions : AddInput(a, tick)
    \/ FixedTick
    \/ \E send_ok \in BOOLEAN : PrepareInputMessage(send_ok)
    \/ LoseMessage
    \/ DeliverMessage

SpecInput == InitInput /\ [][NextInput]_vars

(***************************************************************************)
(* The input buffer on its own: inputs are recorded, popped and put into   *)
(* messages for ticks on both sides of the wrap of the tick counter.       *)
(***************************************************************************)
InitBuffer ==
    /\ SyncNew
    /\ overflow_checks = FALSE
    /\ pos = "Off"
    /\ host_server = FALSE

\* InputBuffer::pop called directly
PopInput(t) ==
    /\ InputStep("pop")
    /\ popped' = Some(<<t, pop_value(input_buffer, t)>>)
    /\ input_buffer' = pop(input_buffer, t)
    /\ UNCHANGED <<syncVars, channelVars>>

\* InputBuffer::create_message called directly
CreateMessage(t, n) ==
    /\ InputStep("create_message")
    /\ call' = <<t, n>>
    /\ last_message' = create_message(input_buffer, t, n)
    /\ input_buffer' = after_create_message(input_buffer, t, n)
    /\ UNCHANGED <<syncVars, packet_redundancy,
                   input_send_interval, in_flight, last_build_tick, regular,
                   lost_run, received, prev_received_end, lost_before,
                   regular_before>>

\* the tick is set to new_tick: TickEvent::TickSnap reaches receive_tick_events
SnapTick(new_tick) ==
    /\ set_tick_calls < MaxSnaps
    /\ new_tick # tick
    /\ InputStep("tick_snap")
    /\ tick' = new_tick
    /\ set_tick_calls' = set_tick_calls + 1
    /\ input_buffer' = receive_tick_events(input_buffer, tick, new_tick)
    /\ UNCHANGED <<synced, current_server_time, interpolation_time,
                   interpolation_speed_ratio, latest_received_server_tick,
                   duration_since_latest_received_server_tick,
                   sync_relative_speed, delta, overstep, sync_stats_len, rtt,
                   jitter, overflow_checks, panicked>>
    /\ UNCHANGED channelVars

NextBuffer ==
    \/ \E a \in Actions, t \in BufferTicks :
          /\ Len(set(input_buffer, t, Some(a)).buffer) <= MaxBufferLen
          /\ AddInput(a, t)
    \/ \E t \in BufferTicks : PopInput(t)
    \/ \E t \in MessageTicks, n \in 0..MaxMessageLen : CreateMessage(t, n)
    \/ \E t \in SnapTicks : SnapTick(t)

SpecBuffer == InitBuffer /\ [][NextBuffer]_vars

(***************************************************************************)
(* A client frame by frame: the systems run in the order of the schedules, *)
(* one tick of the fixed main loop per frame at most, a rollback replaying *)
(* the ticks before the current one.                                       *)
(***************************************************************************)
InitFrame ==
    /\ SyncNew
    /\ overflow_checks = FALSE
    /\ pos = "PreUpdate"
    /\ host_server \in BOOLEAN

\* a step of the schedule that is not a call into SyncManager or InputManager
FrameStep(op, p) ==
    /\ ~panicked
    /\ lastOp' = op
    /\ pos' = p
    /\ call' = NoCall
    /\ last_message' = NoMessage
    /\ zero_run' = NoRun
    /\ UNCHANGED <<steps, send_failed, evicted, host_server>>

\* what a step of the schedule leaves alone besides the buffer and the events
frameRest == <<synced, current_server_time, interpolation_time,
               interpolation_speed_ratio, latest_received_server_tick,
               duration_since_latest_received_server_tick, tick,
               sync_relative_speed, delta, overstep, sync_stats_len, rtt,
               jitter, overflow_checks, panicked, set_tick_calls, channelVars>>

\* the fixed main loop runs n ticks in this frame
RunFixedMainLoop(n) ==
    /\ pos \in {"PreUpdate", "RunFixedMainLoop"}
    /\ FrameStep("run_fixed_main_loop",
                 IF n = 0 THEN post_update_sets[1]
                 ELSE fixed_pre_update_sets[1])
    /\ popped' = None
    /\ UNCHANGED <<frameRest, input_buffer, rollback, input_event,
                   server_event>>

\* the prediction starts a rollback to the tick k ticks before the current one
StartRollback(k) ==
    /\ pos = "PreUpdate"
    /\ ~host_server
    /\ rollback = None
    /\ FrameStep("start_rollback", fixed_pre_update_sets[1])
    /\ rollback' = Some(WrapTick(tick - k))
    /\ popped' = None
    /\ UNCHANGED <<frameRest, input_buffer, input_event, server_event>>

\* BufferInputs: a system of the user calls add_input for the current tick
BufferInput(a) ==
    /\ pos = "BufferInputs"
    /\ buffer_inputs_runs(rollback)
    /\ AddInput(a, tick)

\* BufferInputs does not run, or its systems record nothing
SkipBufferInputs ==
    /\ pos = "BufferInputs"
    /\ FrameStep("skip_buffer_inputs", next_set(pos))
    /\ popped' = None
    /\ UNCHANGED <<frameRest, input_buffer, rollback, input_event,
                   server_event>>

\* TickManager::tick_or_rollback_tick
tick_or_rollback_tick(tk, rb) == IF rb = None THEN tk ELSE rb[1]

\* write_input_event (not host-server)
WriteInputEvent ==
    /\ pos = "WriteInputEvent"
    /\ ~host_server
    /\ FrameStep("write_input_event", next_set(pos))
    /\ input_event' =
           Some(get(input_buffer, tick_or_rollback_tick(tick, rollback)))
    /\ popped' = None
    /\ UNCHANGED <<frameRest, input_buffer, rollback, server_event>>

\* ClientConnection::id of the local client
LocalClientId == "local"

\* send_input_directly_to_client_events (host-server)
SendInputDirectly ==
    /\ pos = "WriteInputEvent"
    /\ host_server
    /\ FrameStep("send_input_directly", next_set(pos))
    /\ popped' = Some(<<tick, pop_value(input_buffer, tick)>>)
    /\ input_buffer' = pop(input_buffer, tick)
    /\ server_event' = Some(<<pop_value(input_buffer, tick), LocalClientId>>)
    /\ UNCHANGED <<frameRest, rollback, input_event>>

\* mutant: increment_tick has no run condition
increment_tick_runs_always(rb) == TRUE

\* the run condition of increment_tick: there is no Rollback resource, or the
\* client is not in rollback
increment_tick_runs(rb) == rb = None

\* FixedUpdate: increment_tick runs unless a rollback is replaying
FrameIncrementTick ==
    /\ pos = "FixedUpdate"
    /\ increment_tick_runs(rollback)
    /\ IncrementTick

\* FixedUpdate of a replayed tick
ReplayTick ==
    /\ pos = "FixedUpdate"
    /\ ~increment_tick_runs(rollback)
    /\ FrameStep("replay_tick", next_set(pos))
    /\ popped' = None
    /\ UNCHANGED <<frameRest, input_buffer, rollback, input_event,
                   server_event>>

\* the rollback after a tick of the fixed schedules: it goes on to the next
\* tick, or ends once the tick before the current one is replayed
rollback_after_tick(rb, tk) ==
    IF rb = None THEN None
    ELSE IF WrapTick(rb[1] + 1) = tk THEN None
    ELSE Some(WrapTick(rb[1] + 1))

\* the set that runs after the last set p of a tick of the fixed schedules
set_after_tick(rb, tk, p) ==
    IF rb = None THEN next_set(p)
    ELSE IF rollback_after_tick(rb, tk) = None THEN "RunFixedMainLoop"
    ELSE fixed_pre_update_sets[1]

\* clear_input_events, the last system of a tick of the fixed schedules:
\* EventReader::clear moves the cursor of the system's own reader, the event
\* written for the tick stays with the other readers
ClearInputEvents ==
    /\ pos = "ClearInputEvent"
    /\ FrameStep("clear_input_events", set_after_tick(rollback, tick, pos))
    /\ rollback' = rollback_after_tick(rollback, tick)
    /\ popped' = None
    /\ UNCHANGED <<frameRest, input_buffer, input_event, server_event>>

\* SendInputMessage does not run
SkipSendInputMessage ==
    /\ pos = "SendInputMessage"
    /\ ~send_input_message_runs(synced, host_server)
    /\ FrameStep("skip_send_input_message", next_set(pos))
    /\ popped' = None
    /\ UNCHANGED <<frameRest, input_buffer, rollback, input_event,
                   server_event>>

\* Send with no input message waiting in the channel
NothingToSend ==
    /\ pos = "Send"
    /\ in_flight = None
    /\ FrameStep("send", next_set(pos))
    /\ popped' = None
    /\ UNCHANGED <<frameRest, input_buffer, rollback, input_event,
                   server_event>>

\* SyncSet: the update of the SyncManager for the frame; the tick events it
\* triggers are handled in it
SyncSetUpdate(d) ==
    /\ pos = "SyncSet"
    /\ Update(d)

NextFrame ==
    \/ pos = "PreUpdate" /\ \E sample \in FrameSamples : RecordSample(sample)
    \/ pos = "PreUpdate" /\ \E t \in FrameServerTicks : ReceiveServerTick(t)
    \/ \E k \in 1..MaxRollbackTicks : StartRollback(k)
    \/ \E n \in 0..1 : RunFixedMainLoop(n)
    \/ \E a \in FrameActions : BufferInput(a)
    \/ SkipBufferInputs
    \/ WriteInputEvent
    \/ SendInputDirectly
    \/ FrameIncrementTick
    \/ ReplayTick
    \/ ClearInputEvents
    \/ \E d \in FrameDeltas : SyncSetUpdate(d)
    \/ pos = "SendInputMessage"
          /\ \E send_ok \in BOOLEAN : PrepareInputMessage(send_ok)
    \/ SkipSendInputMessage
    \/ pos = "Send" /\ LoseMessage
    \/ pos = "Send" /\ DeliverMessage
    \/ NothingToSend

SpecFrame == InitFrame /\ [][NextFrame]_vars

(***************************************************************************)
(* The frames of a client from the update that finalizes the handshake.    *)
(*                                                                         *)
(* InitEvict is the state that update leaves, with no time elapsed since   *)
(* the last server packet, when the client has recorded an input in each   *)
(* of the MaxBacklog ticks it ran before: the tick snap has moved the      *)
(* buffer along with the tick, and SendInputMessage is the next set.       *)
(***************************************************************************)
EvictStartServerTicks == {100}
EvictStartSample == <<Ms(40), Ms(8)>>

\* the inputs recorded in the n ticks before tick tk
backlog(tk, n) ==
    IF n = 0 THEN EmptyBuffer
    ELSE [start_tick |-> Some(WrapTick(tk - n)),
          buffer |-> [i \in 1..n |-> Some("a")]]

InitEvict ==
    \E lat \in EvictStartServerTicks :
        LET cst == update_current_server_time(0, lat, 0, TickDuration,
                                              EvictStartSample[1])
            new_tick == client_ideal_tick(cst, EvictStartSample[1],
                                          EvictStartSample[2])
        IN  /\ synced = TRUE
            /\ current_server_time = cst
            /\ interpolation_time = interpolation_objective(lat, 0)
            /\ interpolation_speed_ratio =
                   update_interpolation_time(
                       One, interpolation_objective(lat, 0), lat, 0)
            /\ latest_received_server_tick = lat
            /\ duration_since_latest_received_server_tick = 0
            /\ tick = new_tick
            /\ sync_relative_speed = One
            /\ delta = 0
            /\ overstep = 0
            /\ sync_stats_len = HandshakePings
            /\ rtt = EvictStartSample[1]
            /\ jitter = EvictStartSample[2]
            /\ overflow_checks = FALSE
            /\ panicked = FALSE
            /\ lastOp = "finalize"
            /\ set_tick_calls = 1
            \* the samples of the handshake and the update were steps
            /\ steps = HandshakePings + 1
            /\ input_buffer = backlog(new_tick, MaxBacklog)
            /\ packet_redundancy = DefaultPacketRedundancy
            /\ input_send_interval = Ms(0)
            /\ ChannelInit
            /\ pos = "SendInputMessage"
            /\ host_server \in BOOLEAN
            /\ rollback = None
            /\ input_event = None
            /\ server_event = None
            /\ send_failed = FALSE
            /\ evicted = None
            /\ popped = None
            /\ zero_run = NoRun

SpecEvict == InitEvict /\ [][NextFrame]_vars

(***************************************************************************)
(* The interpolation cursor of a synced client chasing its objective.      *)
(*                                                                         *)
(* InitConverge is the state the update that finalizes the handshake       *)
(* leaves; `steps` counts the operations since.  Frames keep arriving with *)
(* a positive delta (weak fairness of the update); a server packet moves   *)
(* the objective only when the cursor has caught up with it, so that the   *)
(* objective advances at the rate of the wall clock while the cursor       *)
(* converges.                                                              *)
(***************************************************************************)
ConvergeStartServerTicks == {100}
ConvergeServerTicks == {101, 105, 107, 113}
ConvergeDeltas == {Ms(100), Ms(200)}

\* update_interpolation_time: objective_time - self.interpolation_time
interpolation_gap ==
    TimeDiff(interpolation_objective(
                 latest_received_server_tick,
                 duration_since_latest_received_server_tick),
             interpolation_time)

Abs(x) == IF x < 0 THEN -x ELSE x

InitConverge ==
    \E lat \in ConvergeStartServerTicks :
        LET cst == update_current_server_time(0, lat, 0, TickDuration,
                                              InputStartSample[1])
        IN  /\ synced = TRUE
            /\ current_server_time = cst
            /\ interpolation_time = interpolation_objective(lat, 0)
            /\ interpolation_speed_ratio = One
            /\ latest_received_server_tick = lat
            /\ duration_since_latest_received_server_tick = 0
            /\ tick = client_ideal_tick(cst, InputStartSample[1],
                                        InputStartSample[2])
            /\ sync_relative_speed = One
            /\ delta = 0
            /\ overstep = 0
            /\ sync_stats_len = HandshakePings
            /\ rtt = InputStartSample[1]
            /\ jitter = InputStartSample[2]
            /\ overflow_checks = FALSE
            /\ panicked = FALSE
            /\ lastOp = "finalize"
            /\ set_tick_calls = 1
            /\ steps = 0
            /\ input_buffer = EmptyBuffer
            /\ packet_redundancy = DefaultPacketRedundancy
            /\ input_send_interval = Ms(0)
            /\ ChannelInit
            /\ pos = "Off"
            /\ host_server = FALSE
            /\ rollback = None
            /\ input_event = None
            /\ server_event = None
            /\ send_failed = FALSE
            /\ evicted = None
            /\ popped = None
            /\ zero_run = NoRun

\* a frame with a positive delta
ConvergeUpdate == \E d \in ConvergeDeltas : Update(d)

\* a server packet received once the cursor is within the margin
ConvergeReceiveServerTick(t) ==
    /\ interpolation_speed_ratio = One
    /\ Abs(interpolation_gap) <= InterpolationErrorMargin
    /\ ReceiveServerTick(t)

NextConverge ==
    \/ ConvergeUpdate
    \/ \E t \in ConvergeServerTicks : ConvergeReceiveServerTick(t)

SpecConverge ==
    InitConverge /\ [][NextConverge]_vars /\ WF_vars(ConvergeUpdate)

(***************************************************************************)
(* Properties.                                                             *)
(***************************************************************************)
SpeedValues == {Recip(SpeedupFactor), One, SpeedupFactor}

\* C1: is_synced() starts false, and once it is true no update, sample or
\* server-tick receipt makes it false again (so it flips at most once).
C1_SyncedNeverReverts == (~synced) /\ [][synced => synced']_vars

C1_Witness ==
    /\ synced
    /\ lastOp = "update"
    /\ sync_stats_len < HandshakePings

\* C2: an update call leaves synced true exactly when it was already true or
\* the call was made with at least handshake_pings samples; nothing else
\* changes synced.  So the flip happens in the first update with enough
\* samples and not in an update with fewer.
C2_FlipsAtHandshakePings ==
    [][/\ IsUpdate(lastOp') =>
            (synced' <=> (synced \/ sync_stats_len >= HandshakePings))
       /\ ~IsUpdate(lastOp') => synced' = synced]_vars

C2_Witness ==
    /\ synced
    /\ lastOp = "finalize"
    /\ sync_stats_len = HandshakePings
    /\ steps = HandshakePings + 1

\* C3: set_tick_to is called at most once, only by the update call that
\* flips synced, and by every such call that returns; once synced, update,
\* update_interpolation_time and update_prediction_time leave the tick alone.
C3_RebaseOnce ==
    /\ [](set_tick_calls <= 1)
    /\ [][/\ set_tick_calls' # set_tick_calls => (~synced /\ synced')
          /\ (~synced /\ synced' /\ ~panicked') =>
                 set_tick_calls' = set_tick_calls + 1
          /\ (synced /\ lastOp' \in {"update", "finalize",
                                     "update_interpolation_time",
                                     "update_prediction_time"}) =>
                 tick' = tick]_vars

C3_Witness ==
    /\ synced
    /\ set_tick_calls = 1
    /\ lastOp = "update_prediction_time"
    /\ sync_relative_speed # One

\* C4 (as claimed): right after finalize the time of the rebased tick is not
\* before predicted_server_receive_time + client_ahead_minimum.
C4_SafetyMarginAfterFinalize ==
    (lastOp = "finalize" /\ ~panicked) =>
        TimeDiff(current_prediction_time(latest_received_server_tick, tick, 0),
                 client_ideal_time(current_server_time, rtt, jitter)) >= 0

\* C5 (as claimed): when a message is delivered after at most
\* packet_redundancy messages in a row were lost, every message since the
\* previous delivery having been built one send interval after the one
\* before and handed to the channel, its window starts no later than the
\* tick after the end_tick of the previous delivery.
C5_RedundancyCoversLosses ==
    (/\ lastOp = "deliver"
     /\ prev_received_end # None
     /\ regular_before
     /\ lost_before <= packet_redundancy) =>
        TickDiff(window_start(received[1]),
                 WrapTick(prev_received_end[1] + 1)) <= 0

\* C6 (as claimed): the length prepare_input_message passes to create_message
\* is channel_send_interval_in_ticks * (1 + packet_redundancy).
C6_MessageLength ==
    lastOp = "prepare_input_message" =>
        call[2] = (input_send_interval \div TickDuration)
                      * (1 + packet_redundancy)

\* C7: decoding the message create_message(tick, length) returns gives, for
\* each of the length ticks ending at tick, the Option<Action> the buffer
\* holds for that tick.
C7_MessageRoundTrip ==
    lastOp = "create_message" =>
        /\ last_message.end_tick = call[1]
        /\ Len(decode(last_message)) = call[2]
        /\ \A i \in 1..call[2] :
              decode(last_message)[i] =
                  get(input_buffer, WrapTick(call[1] - call[2] + i))

C7_Witness ==
    /\ lastOp = "create_message"
    /\ call[2] = MaxMessageLen
    /\ input_buffer.start_tick # None
    /\ TickDiff(WrapTick(call[1] - call[2] + 1), input_buffer.start_tick[1]) < 0
    /\ \E i \in 1..call[2] : last_message.inputs[i] = SameAsPrecedent
    /\ \E i \in 2..call[2] : last_message.inputs[i] \notin {Absent, SameAsPrecedent}
    /\ last_message.inputs[call[2]] = Absent

\* C8: after update_prediction_time the speed multiplier is 1/speedup_factor
\* when error > tick_duration * error_margin, speedup_factor when
\* error < -tick_duration * error_margin, 1 otherwise; it is always one of
\* the three values.
C8_Error ==
    TimeDiff(current_prediction_time(latest_received_server_tick, tick,
                                     overstep),
             predicted_server_receive_time(current_server_time, rtt))
    - (JitterMultipleMargin * jitter + TickMargin * TickDuration)

C8_PredictionSpeed ==
    /\ sync_relative_speed \in SpeedValues
    /\ lastOp = "update_prediction_time" =>
          /\ C8_Error > TickDuration =>
                 sync_relative_speed = Recip(SpeedupFactor)
          /\ C8_Error < -TickDuration => sync_relative_speed = SpeedupFactor
          /\ (C8_Error <= TickDuration /\ C8_Error >= -TickDuration) =>
                 sync_relative_speed = One

C8_Witness ==
    /\ lastOp = "update_prediction_time"
    /\ C8_Error > TickDuration
    /\ sync_relative_speed = Recip(SpeedupFactor)

\* C9: interpolation_speed_ratio is always 1/speedup_factor, 1 or
\* speedup_factor.
C9_RatioIsOneOfThree == interpolation_speed_ratio \in SpeedValues

C9_Witness ==
    /\ lastOp = "update_interpolation_time"
    /\ steps >= 2
    /\ interpolation_speed_ratio = Recip(SpeedupFactor)

\* C10: after an update call that returns with synced set, the ratio is
\* speedup_factor when objective - interpolation_time > 10ms, 1/speedup_factor
\* when it is < -10ms and 1 otherwise; an update that leaves the client
\* unsynced does not change the ratio.
C10_Delta ==
    TimeDiff(interpolation_objective(latest_received_server_tick,
                 duration_since_latest_received_server_tick),
             interpolation_time)

C10_RatioAfterUpdate ==
    /\ [](( IsUpdate(lastOp) /\ synced /\ ~panicked) =>
            /\ C10_Delta > Ms(10) =>
                   interpolation_speed_ratio = SpeedupFactor
            /\ C10_Delta < -Ms(10) =>
                   interpolation_speed_ratio = Recip(SpeedupFactor)
            /\ (C10_Delta <= Ms(10) /\ C10_Delta >= -Ms(10)) =>
                   interpolation_speed_ratio = One)
    /\ [][(IsUpdate(lastOp') /\ ~synced') =>
              interpolation_speed_ratio' = interpolation_speed_ratio]_vars

C10_Witness ==
    /\ lastOp = "update"
    /\ synced
    /\ C10_Delta < -Ms(10)
    /\ interpolation_speed_ratio = Recip(SpeedupFactor)

\* C11 as stated: after two update calls in a row with a zero delta, the
\* interpolation_speed_ratio and current_server_time are the ones the
\* SyncManager had before the first of the two calls.
C11_ZeroUpdatesChangeNothing ==
    zero_run[1] = 2 =>
        /\ interpolation_speed_ratio = zero_run[2]
        /\ current_server_time = zero_run[3]

\* C11: the second of two update calls in a row with a zero delta changes
\* neither interpolation_speed_ratio nor current_server_time; the first may
\* change both.
C11_SecondZeroUpdateChangesNothing ==
    [][(zero_run[1] >= 1 /\ zero_run'[1] = 2) =>
           /\ interpolation_speed_ratio' = interpolation_speed_ratio
           /\ current_server_time' = current_server_time]_vars

C11_Witness ==
    /\ zero_run[1] = 2
    /\ synced
    /\ interpolation_speed_ratio # One
    /\ interpolation_speed_ratio # zero_run[2]

\* C12: the tick a finalize that completes rebases the tick source to is
\* ceil((predicted_server_receive_time + client_ahead_minimum) / tick_duration)
\* as a 16-bit tick, also when the ideal time is a multiple of tick_duration.
C12_IdealTime == client_ideal_time(current_server_time, rtt, jitter)

C12_RebaseToCeil ==
    (lastOp = "finalize" /\ ~panicked) =>
        tick = WrapTick((C12_IdealTime + TickDuration - 1) \div TickDuration)

\* C13: client_ahead_minimum is jitter_multiple_margin x jitter + tick_margin
\* x tick_duration; with the default margins 3 and 1, a jitter of 10ms and a
\* tick of 16ms it is 46ms, and it is the margin finalize puts between the
\* predicted server receive time and the ideal client time whatever the rtt.
C13_ClientAheadMinimum ==
    /\ client_ahead_minimum(TickDuration, jitter) =
           JitterMultipleMargin * jitter + TickMargin * TickDuration
    /\ jitter = Ms(10) => client_ahead_minimum(Ms(16), jitter) = Ms(46)
    /\ \A sample \in Samples :
           TimeDiff(client_ideal_time(current_server_time, sample[1], jitter),
                    predicted_server_receive_time(current_server_time,
                                                  sample[1]))
               = 3 * jitter + Ms(16)

C13_Witness ==
    /\ lastOp = "finalize"
    /\ ~panicked
    /\ jitter = Ms(10)
    /\ client_ahead_minimum(TickDuration, jitter) = Ms(46)

\* C14: when update_prediction_time has run, the prediction time it used is
\* the client tick plus 2^16 ticks if the magnitude of the raw tick delta to
\* latest_received_server_tick exceeds int16-max minus the 1000-tick band,
\* the raw client tick otherwise, converted to time, plus the overstep.
C14_Magnitude ==
    IF latest_received_server_tick >= tick
    THEN latest_received_server_tick - tick
    ELSE tick - latest_received_server_tick

C14_WrapBy65536 ==
    lastOp = "update_prediction_time" =>
        current_prediction_time(latest_received_server_tick, tick, overstep)
            = WrappedTime(
                  TickDuration * (IF C14_Magnitude > 32767 - 1000
                                  THEN tick + 65536 ELSE tick)
                  + overstep)

\* C15: a finalize whose floor(client_ideal_time / tick_duration), reduced to
\* 16 bits, is 65535 completes and rebases the tick to 0.
C15_FinalizeWrapsToZero ==
    (/\ lastOp = "finalize"
     /\ ideal_tick_floor(current_server_time, rtt, jitter) = 65535) =>
        /\ ~panicked
        /\ set_tick_calls = 1
        /\ tick = 0

\* C16: the first sample update_current_server_time applies on a connection
\* (the one finalize applies) sets current_server_time to exactly
\* latest_received_server_tick x tick_duration
\* + duration_since_latest_received_server_tick + rtt / 2, also when update
\* calls have advanced current_server_time before.
C16_FirstSampleUnblended ==
    lastOp = "finalize" =>
        current_server_time =
            WrappedTime(latest_received_server_tick * TickDuration
                        + duration_since_latest_received_server_tick
                        + rtt \div 2)

\* C17: an update call advances interpolation_time by exactly its delta x the
\* interpolation_speed_ratio held when the call starts; only the update call
\* that completes the handshake assigns it instead, to interpolation_objective,
\* which never happens once synced; no other operation changes it.
C17_Eased ==
    WrappedTime(interpolation_time
                + (delta' * interpolation_speed_ratio[1])
                      \div interpolation_speed_ratio[2])

C17_OnlyEased ==
    [][/\ (lastOp' = "update" \/ (lastOp' = "finalize" /\ panicked')) =>
              interpolation_time' = C17_Eased
       /\ (lastOp' = "finalize" /\ ~panicked') =>
              /\ ~synced
              /\ interpolation_time' =
                     interpolation_objective(
                         latest_received_server_tick',
                         duration_since_latest_received_server_tick')
       /\ ~IsUpdate(lastOp') => interpolation_time' = interpolation_time
      ]_vars

C17_Witness ==
    /\ lastOp = "update"
    /\ synced
    /\ delta > 0
    /\ interpolation_speed_ratio = SpeedupFactor
    /\ interpolation_time #
           interpolation_objective(latest_received_server_tick,
                                   duration_since_latest_received_server_tick)

C19_Delta == TickDiff(tick', tick)

C19_SnapShiftsStart ==
    /\ receive_tick_events(
           [start_tick |-> Some(100), buffer |-> <<Some("a")>>], 7, 12)
           = [start_tick |-> Some(105), buffer |-> <<Some("a")>>]
    /\ [][lastOp' = "tick_snap" =>
              IF input_buffer.start_tick = None
              THEN input_buffer' = input_buffer
              ELSE /\ input_buffer'.start_tick =
                          Some((input_buffer.start_tick[1] + C19_Delta
                                + 65536) % 65536)
                   /\ input_buffer'.buffer = input_buffer.buffer
                   /\ \A t \in BufferTicks \cup SnapTicks :
                          get(input_buffer, t) # None =>
                              get(input_buffer',
                                  (t + C19_Delta + 65536) % 65536)
                                  = get(input_buffer, t)]_vars

C19_Witness ==
    /\ lastOp = "tick_snap"
    /\ set_tick_calls = 1
    /\ tick = 5
    /\ input_buffer.start_tick = Some(3)
    /\ get(input_buffer, 4) = Some("b")

\* C20: for two different ticks T1, T2 of the retained window of the buffer
\* and any actions a1, a2, add_input(a1, T1) then add_input(a2, T2) leaves a
\* buffer whose get returns, for every tick, what it returns after
\* add_input(a2, T2) then add_input(a1, T1).
C20_Window ==
    IF input_buffer.start_tick = None THEN {}
    ELSE {(input_buffer.start_tick[1] + k) % 65536 :
              k \in 0..(Len(input_buffer.buffer) - 1)}

\* the window, the tick before it and the tick after it
C20_Probes ==
    IF input_buffer.start_tick = None THEN {}
    ELSE {(input_buffer.start_tick[1] + k + 65536) % 65536 :
              k \in (-1)..Len(input_buffer.buffer)}

C20_SetOrderIndependent ==
    \* the equation for (T1, a1, T2, a2) is the one for (T2, a2, T1, a1):
    \* each pair of ticks is taken with T1 the earlier one
    \A T1 \in C20_Window, T2 \in C20_Window :
        TickDiff(T2, T1) > 0 =>
            \A a1 \in Actions, a2 \in Actions :
                LET first_T1 ==
                        set(set(input_buffer, T1, Some(a1)), T2, Some(a2))
                    first_T2 ==
                        set(set(input_buffer, T2, Some(a2)), T1, Some(a1))
                IN  \A t \in C20_Probes : get(first_T1, t) = get(first_T2, t)

C20_Witness ==
    /\ lastOp = "add_input"
    /\ Len(input_buffer.buffer) = 3
    /\ input_buffer.start_tick = Some(65535)
    /\ get(input_buffer, 0) = Some("a")
    /\ get(input_buffer, 1) = Some("b")

\* C21: when no tick of the window [tick - message_len + 1, tick] holds an
\* input, the message prepare_input_message builds is empty and send_message
\* is not called; when a tick of the window holds an input, send_message is
\* called exactly once (it succeeds or fails).
C21_WindowAbsent ==
    \A i \in 0..(message_len(packet_redundancy, input_send_interval) - 1) :
        get(input_buffer, (tick - i + 65536) % 65536) = None

C21_SentIffNotAbsent ==
    [][lastOp' = "prepare_input_message" =>
           IF C21_WindowAbsent
           THEN /\ last_message'.inputs \in Seq({Absent, SameAsPrecedent})
                /\ in_flight' = None
                /\ lost_run' = lost_run
           ELSE \/ in_flight' = Some(last_message') /\ lost_run' = lost_run
                \/ in_flight' = None /\ lost_run' = lost_run + 1]_vars

C21_Witness ==
    /\ lastOp = "prepare_input_message"
    /\ packet_redundancy = 2
    /\ Len(last_message.inputs) >= 2
    /\ is_empty(last_message)
    /\ in_flight = None
    /\ lost_run = 0
    /\ received # None

\* C22: building and sending a message takes nothing out of the buffer: the
\* buffer prepare_input_message leaves is the one pop(interpolation_tick)
\* leaves of the buffer it found, and losing or delivering the message does
\* not touch it, so every tick after the interpolation tick reads after the
\* send as it read before.
C22_InterpolationTick == interpolation_tick(interpolation_time)

C22_SendEvictsNothing ==
    [][/\ lastOp' = "prepare_input_message" =>
              /\ input_buffer' = pop(input_buffer, C22_InterpolationTick)
              /\ \A i \in 0..MaxTicks :
                     LET t == (tick - i + 65536) % 65536
                     IN  TickDiff(t, C22_InterpolationTick) > 0 =>
                             get(input_buffer', t) = get(input_buffer, t)
       /\ lastOp' \in {"lose", "deliver"} => input_buffer' = input_buffer
      ]_vars

C22_Witness ==
    /\ lastOp = "prepare_input_message"
    /\ prev_received_end # None
    /\ in_flight # None
    /\ input_buffer.start_tick # None
    /\ TickDiff(tick, input_buffer.start_tick[1]) >= 3
    /\ get(input_buffer, input_buffer.start_tick[1]) = Some("a")

\* C23: pop(tick) returns what get(tick) returned just before it, get(tick)
\* returns nothing after it, a pop of the start_tick moves the start_tick to
\* the next tick, and the ticks after `tick` read as they did before.
C23_Tick == popped'[1][1]

C23_PopRemovesAndReturns ==
    [][lastOp' = "pop" =>
           /\ popped'[1][2] = get(input_buffer, C23_Tick)
           /\ get(input_buffer', C23_Tick) = None
           /\ input_buffer.start_tick = Some(C23_Tick) =>
                  input_buffer'.start_tick = Some((C23_Tick + 1) % 65536)
           /\ \A k \in 1..MaxBufferLen :
                  get(input_buffer', (C23_Tick + k) % 65536)
                      = get(input_buffer, (C23_Tick + k) % 65536)]_vars

C23_Witness ==
    /\ lastOp = "pop"
    /\ popped = Some(<<0, Some("a")>>)
    /\ input_buffer.start_tick = Some(1)
    /\ get(input_buffer, 1) = Some("b")

\* C24: whatever was set, popped, put into messages and rebased, get returns
\* nothing for a tick before start_tick (by the signed wrapping distance),
\* also after a set on that tick.
C24_Before ==
    IF input_buffer.start_tick = None THEN {}
    ELSE {(input_buffer.start_tick[1] - k + 65536) % 65536 :
              k \in 1..(MaxBufferLen + 1)}

C24_NothingBeforeStart ==
    \A t \in C24_Before :
        /\ get(input_buffer, t) = None
        /\ \A a \in Actions :
               get(set(input_buffer, t, Some(a)), t) = None

C24_Witness ==
    /\ lastOp = "add_input"
    /\ set_tick_calls = 1
    /\ input_buffer.start_tick # None
    /\ input_buffer.buffer = <<>>

\* C25: add_input(a, t) for a tick t after the end of the buffer makes
\* get_input(t) return a, leaves the ticks between the old end and t without
\* an input and the ticks stored before as they were; get_input of a tick
\* without a recorded input returns nothing.
C25_End ==
    input_buffer.start_tick[1] + Len(input_buffer.buffer)

C25_GrowthLeavesGaps ==
    IF input_buffer.start_tick = None
    THEN \A t \in BufferTicks \cup SnapTicks : get(input_buffer, t) = None
    ELSE /\ \A k \in (-MaxBufferLen)..(-1) \cup 0..MaxBufferLen :
                ( \/ k < -Len(input_buffer.buffer)
                  \/ k >= 0 ) =>
                    get(input_buffer, (C25_End + k + 65536) % 65536) = None
         /\ \A k \in 0..2, a \in Actions :
                LET t == (C25_End + k) % 65536
                    grown == set(input_buffer, t, Some(a))
                IN  /\ get(grown, t) = Some(a)
                    /\ \A j \in 0..(k - 1) :
                           get(grown, (C25_End + j) % 65536) = None
                    /\ \A i \in 1..Len(input_buffer.buffer) :
                           get(grown, (C25_End - i + 65536) % 65536)
                               = get(input_buffer,
                                     (C25_End - i + 65536) % 65536)

C25_Witness ==
    /\ lastOp = "add_input"
    /\ input_buffer.start_tick = Some(65535)
    /\ input_buffer.buffer = <<Some("b"), None, Some("a")>>

\* C26: a prepare_input_message whose send_message fails drops the message
\* and still pops the buffer at the interpolation tick, touching nothing
\* else of it; the next prepare_input_message builds its message as usual,
\* and that message covers again the ticks the dropped one was the first to
\* carry (those of the send interval that ended with it).
C26_IntervalTicks == input_send_interval \div TickDuration

C26_FailedSendIsRecovered ==
    [][/\ (lastOp' = "prepare_input_message" /\ send_failed') =>
              /\ in_flight' = None
              /\ input_buffer' =
                     pop(input_buffer, interpolation_tick(interpolation_time))
       /\ (lastOp' = "prepare_input_message" /\ send_failed) =>
              /\ call' = <<tick, message_len(packet_redundancy,
                                             input_send_interval)>>
              /\ last_message' = create_message(input_buffer, tick, call'[2])
              /\ TickDiff((call'[1] - call'[2] + 1 + 65536) % 65536,
                          (last_build_tick[1] - C26_IntervalTicks + 1 + 65536)
                              % 65536) <= 0
      ]_vars

\* C27: in every frame the clock-sync update runs in SyncSet and
\* SendInputMessage is the next set, so prepare_input_message runs right
\* after that frame's update and builds its message at the tick the update
\* left; the transport send set runs only after SendInputMessage.
C27_SyncThenBuildThenSend ==
    [][/\ IsUpdate(lastOp') =>
              pos = "SyncSet" /\ pos' = "SendInputMessage"
       /\ lastOp' = "prepare_input_message" =>
              IsUpdate(lastOp) /\ call'[1] = tick /\ pos' = "Send"
       /\ lastOp' \in {"lose", "deliver", "send"} =>
              lastOp \in {"prepare_input_message",
                          "skip_send_input_message"}]_vars

\* the message is built in the frame whose update finalized the handshake
\* and snapped the tick
C27_Witness ==
    /\ lastOp = "prepare_input_message"
    /\ steps = HandshakePings + 1
    /\ set_tick_calls = 1
    /\ call[1] = tick
    /\ tick # 0

\* C28: when the client is not synced, or runs in host-server mode, the
\* SendInputMessage set builds no message, hands nothing to the channel and
\* evicts nothing from the input buffer; a message is in flight only once an
\* update has set synced.
C28_NothingSentUnsynced ==
    [][/\ (pos = "SendInputMessage" /\ (~synced \/ host_server)) =>
              /\ lastOp' = "skip_send_input_message"
              /\ UNCHANGED <<input_buffer, in_flight, received,
                             last_build_tick>>
       /\ lastOp' = "prepare_input_message" => synced /\ ~host_server
       /\ in_flight' # None =>
              synced' /\ ~host_server /\ set_tick_calls' >= 1]_vars

\* SendInputMessage was skipped in a frame before the handshake is finalized,
\* and the inputs buffered so far are still there
C28_Witness ==
    /\ lastOp = "skip_send_input_message"
    /\ ~synced
    /\ ~host_server
    /\ input_buffer.start_tick # None
    /\ input_buffer.buffer # <<>>
    /\ in_flight = None
    /\ received = None

\* C29: while a rollback replays, no add_input runs and the input buffer is
\* not modified; write_input_event reads the buffer at the rollback tick
\* during a replay and at the current tick otherwise; in a normal tick
\* BufferInputs has run before the event is written.
C29_ReplayReadsRecordedInputs ==
    [][/\ rollback # None =>
              lastOp' # "add_input" /\ input_buffer' = input_buffer
       /\ lastOp' = "write_input_event" =>
              /\ input_event' =
                     Some(get(input_buffer,
                              IF rollback = None THEN tick ELSE rollback[1]))
              /\ rollback = None =>
                     lastOp \in {"add_input", "skip_buffer_inputs"}
       /\ (lastOp = "add_input" /\ pos # "Off") =>
              lastOp' \in {"write_input_event",
                           "send_input_directly"}]_vars

\* a replayed tick has read an input recorded before the rollback started
C29_Witness ==
    /\ rollback # None
    /\ lastOp = "write_input_event"
    /\ input_event # None
    /\ input_event[1] # None
    /\ TickDiff(tick, rollback[1]) > 0

\* C30: in host-server mode the input buffered for the current tick is, in
\* that same tick, sent as a server InputEvent with the same value and the
\* id of the local client, and popped from the buffer; no input message is
\* built, in flight or received.
C30_HostServerInputDirect ==
    [][/\ (host_server /\ lastOp = "add_input") =>
              /\ get(input_buffer, tick) \in {Some(a) : a \in FrameActions}
              /\ lastOp' = "send_input_directly"
              /\ tick' = tick
              /\ server_event' =
                     Some(<<get(input_buffer, tick), LocalClientId>>)
              /\ get(input_buffer', tick) = None
              /\ input_buffer'.buffer = <<>>
       /\ host_server' =>
              /\ lastOp' # "prepare_input_message"
              /\ in_flight' = None
              /\ received' = None
              /\ input_event' = None]_vars

\* the server event carries the second of two different inputs buffered in
\* two successive ticks
C30_Witness ==
    /\ host_server
    /\ lastOp = "send_input_directly"
    /\ server_event = Some(<<Some("b"), LocalClientId>>)
    /\ popped = Some(<<tick, Some("b")>>)
    /\ tick = 1
    /\ input_buffer.buffer = <<>>

\* C31: update_prediction_time assigns the speed multiplier only: the tick,
\* the delta and the overstep of the wall clock, current_server_time,
\* interpolation_time, interpolation_speed_ratio,
\* latest_received_server_tick and synced are what they were before the call.
C31_OnlySpeedMultiplier ==
    [][lastOp' = "update_prediction_time" =>
           UNCHANGED <<tick, delta, overstep, current_server_time,
                       interpolation_time, interpolation_speed_ratio,
                       latest_received_server_tick, synced,
                       duration_since_latest_received_server_tick>>]_vars

\* the call has slowed the client down with time left over in the fixed
\* timestep
C31_Witness ==
    /\ lastOp = "update_prediction_time"
    /\ sync_relative_speed = Recip(SpeedupFactor)
    /\ overstep = Ms(4)
    /\ delta > 0

\* C34: an update of an unsynced client that has fewer than handshake_pings
\* samples adds delta to duration_since_latest_received_server_tick and to
\* current_server_time and delta x interpolation_speed_ratio to
\* interpolation_time; synced, the tick, interpolation_speed_ratio,
\* latest_received_server_tick and the speed multiplier stay as they were.
C34_OnlyAccumulators ==
    [][(IsUpdate(lastOp') /\ ~synced /\ sync_stats_len < HandshakePings) =>
           /\ lastOp' = "update"
           /\ duration_since_latest_received_server_tick' =
                  duration_since_latest_received_server_tick + delta'
           /\ current_server_time' = WrappedTime(current_server_time + delta')
           /\ interpolation_time' =
                  WrappedTime(interpolation_time
                              + (delta' * interpolation_speed_ratio[1])
                                    \div interpolation_speed_ratio[2])
           /\ UNCHANGED <<synced, tick, set_tick_calls,
                          interpolation_speed_ratio,
                          latest_received_server_tick, sync_relative_speed,
                          overstep>>]_vars

\* an update with a positive delta one sample short of the handshake, a
\* server tick received
C34_Witness ==
    /\ lastOp = "update"
    /\ ~synced
    /\ sync_stats_len = HandshakePings - 1
    /\ delta > 0
    /\ current_server_time > 0
    /\ latest_received_server_tick > 0
    /\ interpolation_speed_ratio = One

\* C36: increment_tick runs in FixedUpdate only, once in a tick of the fixed
\* schedules, adding one to the tick, and only when no rollback is replaying;
\* while a rollback replays the tick does not change.
C36_ReplayKeepsTick ==
    [][/\ rollback # None =>
              tick' = tick /\ lastOp' # "increment_tick"
       /\ lastOp' = "increment_tick" =>
              /\ pos = "FixedUpdate"
              /\ pos' = "ClearInputEvent"
              /\ rollback = None
              /\ tick' = WrapTick(tick + 1)
       /\ (pos \in {"BufferInputs", "WriteInputEvent", "ClearInputEvent"}) =>
              tick' = tick]_vars

\* a tick has been replayed after the live tick was incremented and snapped:
\* the live tick is still one after the rollback tick
C36_Witness ==
    /\ lastOp = "replay_tick"
    /\ rollback # None
    /\ synced
    /\ tick = WrapTick(rollback[1] + 1)
    /\ pos = "ClearInputEvent"

\* C32 as stated: whenever prepare_input_message runs, the interpolation tick
\* it pops at is behind the client tick and behind
\* latest_received_server_tick by the wrap-aware signed distance.
C32_InterpolationTick == interpolation_tick(interpolation_time)

C32_EvictionBehindRollback ==
    [][lastOp' = "prepare_input_message" =>
           /\ TickDiff(C32_InterpolationTick, tick) < 0
           /\ TickDiff(C32_InterpolationTick,
                       latest_received_server_tick) < 0]_vars

\* C35 as stated: an input that the pop of an earlier prepare_input_message
\* has removed is never inside the window of message_len ticks ending at the
\* current tick of a message built later.
C35_WindowLen == message_len(packet_redundancy, input_send_interval)

C35_EvictionKeepsWindow ==
    [][(lastOp' = "prepare_input_message" /\ evicted # None) =>
           TickDiff(tick, evicted[1]) >= C35_WindowLen]_vars

C33_RatioInForce ==
    interpolation_speed_ratio =
        update_interpolation_time(
            interpolation_speed_ratio, interpolation_time,
            latest_received_server_tick,
            duration_since_latest_received_server_tick)

\* the least a frame takes off the gap
C33_MinShrink ==
    LET least == CHOOSE d \in ConvergeDeltas :
                     \A e \in ConvergeDeltas : d <= e
    IN  least - MulF32(least, Recip(SpeedupFactor))

\* the frames left are enough to bring the gap within the margin
C33_FramesLeft ==
    /\ synced
    /\ Abs(interpolation_gap) > InterpolationErrorMargin
    /\ Abs(interpolation_gap) - InterpolationErrorMargin
           <= (MaxSteps - steps - 1) * C33_MinShrink

=============================================================================
